---- MODULE Spec2Model ----
(***************************************************************************)
(* trmnl-japanese: the word store (words / meaning_wrappers), the daily    *)
(* selection of src/main.py, the offset selection of src/draw.py, the      *)
(* representation parser extract_representation and the rendering callers  *)
(* of src/draw.py, the scrape-and-store pass of src/jishi scrape/main.py   *)
(* and the hourly push of src/main.py.                                     *)
(*                                                                         *)
(* HTML strings are modelled by the row they belong to: the wrapper_html   *)
(* of meaning_wrappers row g is written g, the representation_html of      *)
(* words row w is written w.  Decimal text (what SQLite's SUBSTR sees) is  *)
(* a sequence of digits.                                                   *)
(***************************************************************************)
EXTENDS Integers, Sequences, FiniteSets, TLC

VARIABLES
    words,             \* rows of table words: set of [id]
    meaning_wrappers,  \* rows of table meaning_wrappers: set of [id, word_id]
    sqlite_sequence,   \* AUTOINCREMENT counters: [words, meaning_wrappers]
    today,             \* index into Days: what datetime.now() formats to
    rngSeed,           \* state of the module-global random generator (draw.py)
    last,              \* the most recent call since the store last changed
    memo,              \* the first get_daily_meaning_wrappers call since then
    html,              \* the markup handed to extract_representation
    parsed,            \* what extract_representation did with it
    render,            \* a run of one of the callers of plot_word (draw.py)
    wrapper_source,    \* per meaning_wrappers id: the page wrapper it is from
    trmnl              \* the updater task, data/trmnl.json and the pushes

storeVars == <<words, meaning_wrappers, sqlite_sequence>>
callVars  == <<today, rngSeed, last, memo>>
parseVars == <<html, parsed>>
laterVars == <<render, wrapper_source, trmnl>>
vars      == <<words, meaning_wrappers, sqlite_sequence, today, rngSeed, last,
               memo, html, parsed, render, wrapper_source, trmnl>>

----------------------------------------------------------------------------
(* Bounds of the model *)

MaxWrappers == 6     \* rows of meaning_wrappers
MaxBatch    == 2     \* entries handed to one store_extracted_results call
MaxOffset   == 2     \* largest offset handed to generate_word_date
MaxChildren == 3     \* child nodes of the furigana span
MaxContents == 2     \* content nodes of the text span
MaxChars    == 2     \* characters of one text node or span (after strip)
MaxEntries  == 4     \* rows get_all_words hands to a caller of plot_word
MaxRows     == 3     \* rows of meaning_wrappers where single statements fail
MaxPageEntries == 1  \* div.concept_light entries of one scraped page
MaxGlosses  == 2     \* div.meaning-wrapper elements of one entry
MaxPages    == 3     \* pages read by one scrape-and-store pass
MaxPushes   == 2     \* pushes answered with 200 that are counted per date

(* Program constants *)

DailyLimit == 4      \* LIMIT 4
KeyLen     == 15     \* SUBSTR(..., 1, 15)
SampleSize == 4      \* random.sample(data, 4) and offset % 4

NoCall == [op |-> "none"]

Min(a, b) == IF a < b THEN a ELSE b

\* F(v), with v evaluated once
With(v, F(_)) == CHOOSE r \in {F(x) : x \in {v}} : TRUE

----------------------------------------------------------------------------
(* Decimal text of integers, as SQLite renders an INTEGER for SUBSTR *)

\* the decimal text of n, 0 <= n < 2^31
Digits(n) ==
    LET len == IF n >= 10^9 THEN 10
               ELSE CHOOSE k \in 1..9 : n < 10^k /\ (k = 1 \/ n >= 10^(k - 1))
    IN  [i \in 1..len |-> (n \div 10^(len - i)) % 10]

\* the decimal text of n < 10^5, padded with zeros to 5 digits
Pad5(n) == [i \in 1..5 |-> (n \div 10^(5 - i)) % 10]

\* the decimal text of id * seed (a 64-bit INTEGER in SQLite, far from its
\* overflow for a 31-bit seed and these ids), computed in two halves of 5
\* decimal digits so that no intermediate value needs more than 31 bits
ProductText(id, seed) ==
    LET lo == (seed % 100000) * id
        hi == (seed \div 100000) * id + lo \div 100000
    IN  IF hi = 0 THEN Digits(lo) ELSE Digits(hi) \o Pad5(lo % 100000)

\* SUBSTR(id * seed, 1, 15): the first 15 characters of the product's text
Substr15(id, seed) ==
    With(ProductText(id, seed), LAMBDA t : SubSeq(t, 1, Min(KeyLen, Len(t))))

\* comparison of two TEXT values under SQLite's BINARY collation (memcmp,
\* then the shorter one first)
TextLess(a, b) ==
    LET n == Min(Len(a), Len(b))
    IN  \/ \E i \in 1..n : a[i] < b[i] /\ \A j \in 1..(i - 1) : a[j] = b[j]
        \/ Len(a) < Len(b) /\ \A j \in 1..n : a[j] = b[j]

----------------------------------------------------------------------------
(* Dates and seeds *)

\* consecutive calendar days the clock runs through
Days == <<"2024-01-04", "2024-01-05">>

\* a date string whose SHA-256 ends in 31 zero bits
ZeroDay == "5225344-03-08"

DateStrs == {Days[i] : i \in 1..Len(Days)} \cup {ZeroDay}
DateArgs == DateStrs \cup {""}

\* int(hashlib.sha256(date_str.encode()).hexdigest(), 16) % 2**31
date_seed(date_str) ==
    CASE date_str = "2024-01-04" -> 1671237043
      [] date_str = "2024-01-05" -> 666884018
      [] date_str = ZeroDay      -> 0

\* int(hashlib.md5(date_str.encode()).hexdigest(), 16) % (2**32), as text
word_date_seed(date_str) ==
    CASE date_str = "2024-01-04" -> "2434909742"
      [] date_str = "2024-01-05" -> "2986316289"
      [] date_str = ""           -> "3975692926"

----------------------------------------------------------------------------
(* Helpers *)

\* the elements of S as a sequence, ascending under the strict total order lt
SortSet(S, lt(_, _)) ==
    With([x \in S |-> Cardinality({y \in S : lt(y, x)})], LAMBDA rank :
        [i \in 1..Cardinality(S) |-> CHOOSE x \in S : rank[x] = i - 1])

Take(s, n) == SubSeq(s, 1, Min(n, Len(s)))

Range(s) == {s[i] : i \in 1..Len(s)}

----------------------------------------------------------------------------
(* The daily selection: the query of get_daily_meaning_wrappers *)

\* ORDER BY SUBSTR(word_id * ?, 1, 15)
word_sort_key(word_id, seed) == Substr15(word_id, seed)

\* (mutant) the wrapper key computed from the word's id
wrapper_sort_key_of_word(mw, seed) == Substr15(mw.word_id, seed)

\* ORDER BY SUBSTR(mw.id * ?, 1, 15)
wrapper_sort_key(mw, seed) == Substr15(mw.id, seed)

\* (mutant) rows with equal keys leave the sorter in reverse order
SortedBeforeReversed(ka, ida, kb, idb) ==
    \/ TextLess(ka, kb)
    \/ ka = kb /\ ida > idb

\* Row a leaves the sorter before row b: the smaller key first; rows with
\* equal keys leave in the order they entered, and both scans run over
\* idx_word_id, which delivers ascending word_id and, within one word_id,
\* ascending rowid.
SortedBefore(ka, ida, kb, idb) ==
    \/ TextLess(ka, kb)
    \/ ka = kb /\ ida < idb

\* (mutant) DISTINCT left out: LIMIT 4 counts wrapper rows, not words
daily_words_of_rows(rows, seed) ==
    With([mw \in rows |-> word_sort_key(mw.word_id, seed)], LAMBDA key :
      With(Take(SortSet(rows, LAMBDA a, b :
                  \/ SortedBefore(key[a], a.word_id, key[b], b.word_id)
                  \/ a.word_id = b.word_id /\ a.id < b.id), DailyLimit),
           LAMBDA top : [i \in 1..Len(top) |-> top[i].word_id]))

\* (mutant) a window of 4 ids starting at seed % count instead of a sort
daily_words_rotating(rows, seed) ==
    With(SortSet({mw.word_id : mw \in rows}, LAMBDA a, b : a < b),
         LAMBDA ids :
      [i \in 1..Min(DailyLimit, Len(ids)) |->
          ids[((seed + i - 1) % Len(ids)) + 1]])

\* SELECT DISTINCT word_id FROM meaning_wrappers
\* ORDER BY SUBSTR(word_id * ?, 1, 15) LIMIT 4, over the given rows
daily_words_from(rows, seed) ==
    With({mw.word_id : mw \in rows}, LAMBDA ids :
      With([a \in ids |-> word_sort_key(a, seed)], LAMBDA key :
        Take(SortSet(ids, LAMBDA a, b : SortedBefore(key[a], a, key[b], b)),
             DailyLimit)))

\* WITH daily_words AS (...)
daily_words(seed) == daily_words_from(meaning_wrappers, seed)

\* selected_wrappers: meaning_wrappers JOIN words JOIN daily_words, with
\* ROW_NUMBER() OVER (PARTITION BY mw.word_id ORDER BY SUBSTR(mw.id * ?, 1, 15))
selected_wrappers(seed) ==
    With(Range(daily_words(seed)), LAMBDA dw :
      With({mw \in meaning_wrappers :
               /\ \E w \in words : w.id = mw.word_id
               /\ mw.word_id \in dw}, LAMBDA joined :
        With([mw \in joined |-> wrapper_sort_key(mw, seed)], LAMBDA key :
          {[id |-> mw.id, wrapper_html |-> mw.id, word_id |-> mw.word_id,
            representation_html |-> mw.word_id,
            rn |-> 1 + Cardinality({o \in joined :
                        /\ o.word_id = mw.word_id
                        /\ SortedBefore(key[o], o.id, key[mw], mw.id)})]
             : mw \in joined})))

\* SELECT ... FROM selected_wrappers WHERE rn = 1 ORDER BY word_id
daily_query(seed) ==
    With({r \in selected_wrappers(seed) : r.rn = 1}, LAMBDA rows :
      With(SortSet(rows, LAMBDA a, b : a.word_id < b.word_id), LAMBDA sorted :
        [i \in 1..Len(sorted) |->
            [meaning_wrapper |-> sorted[i].wrapper_html,
             representation  |-> sorted[i].representation_html,
             word_id         |-> sorted[i].word_id]]))

\* (mutant) the argument ignored: always today's date
resolve_date_now(date_str) == Days[today]

\* if date_str == "": date_str = datetime.now().strftime("%Y-%m-%d")
resolve_date(date_str) == IF date_str = "" THEN Days[today] ELSE date_str

get_daily_meaning_wrappers(date_str) ==
    daily_query(date_seed(resolve_date(date_str)))

----------------------------------------------------------------------------
(* The offset selection of draw.py *)

\* SELECT ... FROM meaning_wrappers mw JOIN words w ... ORDER BY mw.word_id, mw.id
get_all_words ==
    With({mw \in meaning_wrappers : \E w \in words : w.id = mw.word_id},
         LAMBDA joined :
      With(SortSet(joined, LAMBDA a, b :
                     \/ a.word_id < b.word_id
                     \/ a.word_id = b.word_id /\ a.id < b.id), LAMBDA sorted :
        [i \in 1..Len(sorted) |->
            [meaning_wrapper    |-> sorted[i].id,
             representation     |-> sorted[i].word_id,
             word_id            |-> sorted[i].word_id,
             meaning_wrapper_id |-> sorted[i].id]]))

\* random.seed(seed); random.sample(range(1, n + 1), 4) of CPython's
\* generator, for n = 4, 5, ..., 10: the positions in data that are drawn
sample_table(seed) ==
    CASE seed = "2434909742" ->
           << <<2,1,4,3>>, <<2,1,5,4>>, <<2,1,4,5>>, <<2,1,4,7>>,
              <<3,1,4,2>>, <<3,1,4,2>>, <<3,1,7,2>> >>
      [] seed = "2986316289" ->
           << <<4,1,2,3>>, <<4,2,5,1>>, <<4,2,6,1>>, <<4,2,7,1>>,
              <<7,2,4,1>>, <<7,3,4,1>>, <<7,3,8,1>> >>
      [] seed = "3975692926" ->
           << <<4,3,1,2>>, <<4,1,2,5>>, <<4,1,6,3>>, <<4,6,1,7>>,
              <<7,8,6,1>>, <<7,2,4,6>>, <<7,2,10,6>> >>


\* random.sample(data, 4); it raises ValueError when data has fewer than 4 rows
random_sample(seed, data) ==
    IF Len(data) < SampleSize
    THEN [error |-> "ValueError: Sample larger than population"]
    ELSE LET pos == sample_table(seed)[Len(data) - SampleSize + 1]
         IN  [error |-> "", rows |-> [i \in 1..SampleSize |-> data[pos[i]]]]

\* data_rand[offset % 4], handed to plot_word
word_date_pick(date_str, offset) ==
    LET s == random_sample(word_date_seed(date_str), get_all_words)
    IN  IF s.error # ""
        THEN [error |-> s.error]
        ELSE [error |-> "", row |-> s.rows[(offset % SampleSize) + 1]]

----------------------------------------------------------------------------
(* Actions on the store and the selections *)

\* store_extracted_results: one word row per entry, then its wrapper rows,
\* ids from AUTOINCREMENT; batch[i] is the number of wrappers of entry i
RECURSIVE InsertAll(_, _, _, _)
InsertAll(batch, w, g, seq) ==
    IF batch = <<>>
    THEN [words |-> w, meaning_wrappers |-> g, sqlite_sequence |-> seq]
    ELSE LET word_id == seq.words + 1
             n       == batch[1]
             rows    == {[id |-> seq.meaning_wrappers + k, word_id |-> word_id]
                            : k \in 1..n}
         IN  InsertAll(Tail(batch), w \cup {[id |-> word_id]}, g \cup rows,
                       [words |-> word_id,
                        meaning_wrappers |-> seq.meaning_wrappers + n])

BatchSize(batch) ==
    LET RECURSIVE Sum(_)
        Sum(s) == IF s = <<>> THEN 0 ELSE s[1] + Sum(Tail(s))
    IN  Sum(batch)

\* the batches that fit into the room left under MaxWrappers
Batches ==
    With(MaxWrappers - Cardinality(meaning_wrappers), LAMBDA room :
      {b \in UNION {[1..n -> 1..room] : n \in 1..MaxBatch} :
          BatchSize(b) <= room})

store_extracted_results(batch) ==
    /\ LET r == InsertAll(batch, words, meaning_wrappers, sqlite_sequence)
       IN  /\ words' = r.words
           /\ meaning_wrappers' = r.meaning_wrappers
           /\ sqlite_sequence' = r.sqlite_sequence
    /\ last' = NoCall
    /\ memo' = NoCall
    /\ UNCHANGED <<today, rngSeed, html, parsed>>
    /\ UNCHANGED <<render, wrapper_source, trmnl>>

\* (mutant) a call that takes the rows it selected out of the store
GetDailyConsuming(date_str) ==
    LET result == get_daily_meaning_wrappers(date_str)
    IN  /\ last' = [op |-> "daily", arg |-> date_str,
                    date_str |-> resolve_date(date_str), offset |-> 0,
                    repeat |-> (memo # NoCall), result |-> result]
        /\ memo' = (IF memo # NoCall THEN memo
                    ELSE [op |-> "daily", arg |-> date_str,
                          date_str |-> resolve_date(date_str),
                          result |-> result])
        /\ meaning_wrappers' =
              {g \in meaning_wrappers :
                  \A i \in 1..Len(result) : result[i].meaning_wrapper # g.id}
        /\ UNCHANGED <<words, sqlite_sequence, today, rngSeed, html, parsed>>
        /\ UNCHANGED <<render, wrapper_source, trmnl>>

\* one call of get_daily_meaning_wrappers(date_str)
GetDaily(date_str) ==
    LET result == get_daily_meaning_wrappers(date_str)
    IN  /\ last' = [op |-> "daily", arg |-> date_str,
                    date_str |-> resolve_date(date_str), offset |-> 0,
                    repeat |-> (memo # NoCall), result |-> result]
        /\ memo' = (IF memo # NoCall THEN memo
                    ELSE [op |-> "daily", arg |-> date_str,
                          date_str |-> resolve_date(date_str),
                          result |-> result])
        /\ UNCHANGED <<words, meaning_wrappers, sqlite_sequence, today,
                       rngSeed, html, parsed>>
        /\ UNCHANGED <<render, wrapper_source, trmnl>>

\* one call of generate_word_date(date_str=..., offset=...)
generate_word_date(date_str, offset) ==
    /\ rngSeed' = word_date_seed(date_str)
    /\ last' = [op |-> "offset", arg |-> date_str, date_str |-> date_str,
                offset |-> offset, repeat |-> FALSE,
                result |-> word_date_pick(date_str, offset)]
    /\ UNCHANGED <<words, meaning_wrappers, sqlite_sequence, today, memo,
                   html, parsed>>
    /\ UNCHANGED <<render, wrapper_source, trmnl>>

\* midnight: datetime.now() moves to the next day
Tick ==
    /\ today < Len(Days)
    /\ today' = today + 1
    /\ UNCHANGED <<words, meaning_wrappers, sqlite_sequence, rngSeed, last,
                   memo, html, parsed>>
    /\ UNCHANGED <<render, wrapper_source, trmnl>>

NoMarkup ==
    [container |-> FALSE, has_furigana |-> FALSE, furigana |-> <<>>,
     has_text |-> FALSE, text |-> <<>>]
NotParsed == [kind |-> "none"]

\* no caller of plot_word running, no scrape pass made, updater not started
NoRender == [caller |-> "none"]
NoSources == <<>>
NoUpdater == [task |-> "none"]

Init ==
    /\ words = {}
    /\ meaning_wrappers = {}
    /\ sqlite_sequence = [words |-> 0, meaning_wrappers |-> 0]
    /\ today = 1
    /\ rngSeed = "unseeded"
    /\ last = NoCall
    /\ memo = NoCall
    /\ html = NoMarkup
    /\ parsed = NotParsed
    /\ render = NoRender
    /\ wrapper_source = NoSources
    /\ trmnl = NoUpdater

Next ==
    \/ \E batch \in Batches : store_extracted_results(batch)
    \/ \E d \in DateArgs : GetDaily(d)
    \/ \E d \in Range(Days), k \in 0..MaxOffset : generate_word_date(d, k)
    \/ Tick

Spec == Init /\ [][Next]_vars

----------------------------------------------------------------------------
(* extract_representation (draw.py)                                        *)
(*                                                                         *)
(* The markup is modelled by what the parser looks at: whether the         *)
(* container div exists, the child nodes of its furigana span and the     *)
(* content nodes of its text span.  Texts are modelled by where they come  *)
(* from: the reading of child i of the furigana span is <<i>>, character c *)
(* of content node j of the text span is <<j, c>>.                         *)

\* child nodes of the furigana span: a span, a ruby with rt and rb, a ruby
\* with rt only, a ruby without rt, anything else (a text node, another tag)
ChildKinds == {"span", "ruby", "ruby_no_rb", "ruby_no_rt", "other"}

\* content nodes of the text span: a string of len characters after strip()
\* (len 0: whitespace only), a span whose text has len characters after
\* strip(), any other tag
ContentKinds ==
    [kind : {"str", "span"}, len : 0..MaxChars]
        \cup {[kind |-> "other", len |-> 0]}

SeqsUpTo(S, n) == UNION {[1..k -> S] : k \in 0..n}

\* a markup with the container div, with or without each of the two spans
Markup(hf, f, ht, t) ==
    [container |-> TRUE, has_furigana |-> hf, furigana |-> f,
     has_text |-> ht, text |-> t]

Children(hf) == IF hf THEN SeqsUpTo(ChildKinds, MaxChildren) ELSE {<<>>}
Contents(ht) == IF ht THEN SeqsUpTo(ContentKinds, MaxContents) ELSE {<<>>}

MalformedRuby == "ValueError: Malformed ruby element: missing <rt>"
UnexpectedElement == "ValueError: Unexpected element in furigana span"
LengthMismatch == "ValueError: Mismatch between furigana and text lengths"
AssertionError == "AssertionError"

Raise(e) == [kind |-> "raise", error |-> e, blocks |-> <<>>]
Return(b) == [kind |-> "return", error |-> "", blocks |-> b]

\* content.strip() / content.text.strip() of content node j
CharsOf(j, node) == [c \in 1..node.len |-> <<j, c>>]

\* (mutant) a span counted by its characters, like a plain unit
TextBlockLenOfChars(tb) == Len(tb.char)

\* TextBlock.__len__
TextBlockLen(tb) == IF tb.is_span THEN 1 ELSE Len(tb.char)

\* (mutant) a ruby without <rt> taken as an empty reading
ReadChildLenient(i, kind) ==
    CASE kind = "span"       -> [error |-> "", furigana |-> <<i>>, furigana_span |-> <<>>]
      [] kind = "ruby"       -> [error |-> "", furigana |-> <<i>>, furigana_span |-> <<i>>]
      [] kind = "ruby_no_rb" -> [error |-> "", furigana |-> <<i>>, furigana_span |-> <<>>]
      [] kind = "ruby_no_rt" -> [error |-> "", furigana |-> <<>>, furigana_span |-> <<>>]
      [] OTHER               -> [error |-> UnexpectedElement]

\* one pass of the loop over furigana_span_div.children: what child i
\* appends to furigana and furigana_span (<<>> stands for None), or raises
ReadChild(i, kind) ==
    CASE kind = "span"       -> [error |-> "", furigana |-> <<i>>, furigana_span |-> <<>>]
      [] kind = "ruby"       -> [error |-> "", furigana |-> <<i>>, furigana_span |-> <<i>>]
      [] kind = "ruby_no_rb" -> [error |-> "", furigana |-> <<i>>, furigana_span |-> <<>>]
      [] kind = "ruby_no_rt" -> [error |-> MalformedRuby]
      [] OTHER               -> [error |-> UnexpectedElement]

\* the loop over the children, stopping at the first child that raises
ReadFurigana(children) ==
    LET bad == {i \in 1..Len(children) : ReadChild(i, children[i]).error # ""}
    IN  IF bad # {}
        THEN [error |-> ReadChild(CHOOSE i \in bad : \A j \in bad : i <= j,
                                  children[CHOOSE i \in bad : \A j \in bad : i <= j]).error]
        ELSE [error |-> "",
              furigana      |-> [i \in 1..Len(children) |->
                                    ReadChild(i, children[i]).furigana],
              furigana_span |-> [i \in 1..Len(children) |->
                                    ReadChild(i, children[i]).furigana_span]]

\* the loop over text_span.contents: the TextBlocks, in order
RECURSIVE ReadText(_, _)
ReadText(contents, j) ==
    IF j > Len(contents) THEN <<>>
    ELSE LET node == contents[j]
             here == IF node.kind = "str" /\ node.len > 0
                     THEN <<[char |-> CharsOf(j, node), is_span |-> FALSE]>>
                     ELSE IF node.kind = "span"
                     THEN <<[char |-> CharsOf(j, node), is_span |-> TRUE]>>
                     ELSE <<>>
         IN  here \o ReadText(contents, j + 1)

\* sum(len(tb) for tb in text)
RECURSIVE SumLen(_)
SumLen(text) ==
    IF text = <<>> THEN 0 ELSE TextBlockLen(text[1]) + SumLen(Tail(text))

\* (mutant) a plain unit reduced to its first character
RECURSIVE CombineFirstChar(_)
CombineFirstChar(text) ==
    IF text = <<>> THEN <<>>
    ELSE (IF text[1].is_span
          THEN <<text[1].char>>
          ELSE <<<<text[1].char[1]>>>>)
         \o CombineFirstChar(Tail(text))

\* combined_text: a span as one unit, a plain unit character by character
RECURSIVE Combine(_)
Combine(text) ==
    IF text = <<>> THEN <<>>
    ELSE (IF text[1].is_span
          THEN <<text[1].char>>
          ELSE [c \in 1..Len(text[1].char) |-> <<text[1].char[c]>>])
         \o Combine(Tail(text))

\* [RepresentationBlock(kanji=k, furigana=f, furigana_span=fs)
\*  for k, f, fs in zip(units, furigana, furigana_span)]
ZipBlocks(units, furigana, furigana_span) ==
    [i \in 1..Min(Len(units), Min(Len(furigana), Len(furigana_span))) |->
        [kanji |-> units[i], furigana |-> furigana[i],
         furigana_span |-> furigana_span[i]]]

\* the reconciliation at the end of extract_representation
Reconcile(furigana, furigana_span, text) ==
    IF Len(furigana) = Len(text)
    THEN Return(ZipBlocks([i \in 1..Len(text) |-> text[i].char],
                          furigana, furigana_span))
    ELSE IF Len(furigana) = SumLen(text)
    THEN Return(ZipBlocks(Combine(text), furigana, furigana_span))
    ELSE Raise(LengthMismatch)

extract_representation(h) ==
    IF ~h.container THEN Return(<<>>)
    ELSE LET f == IF h.has_furigana THEN ReadFurigana(h.furigana)
                  ELSE [error |-> "", furigana |-> <<>>, furigana_span |-> <<>>]
         IN  IF f.error # "" THEN Raise(f.error)
             ELSE IF ~h.has_text THEN Raise(AssertionError)
             ELSE Reconcile(f.furigana, f.furigana_span, ReadText(h.text, 1))

\* one call of extract_representation on the markup
Parse ==
    /\ parsed = NotParsed
    /\ parsed' = extract_representation(html)
    /\ UNCHANGED <<words, meaning_wrappers, sqlite_sequence, today, rngSeed,
                   last, memo, html>>
    /\ UNCHANGED <<render, wrapper_source, trmnl>>

InitParse ==
    /\ words = {}
    /\ meaning_wrappers = {}
    /\ sqlite_sequence = [words |-> 0, meaning_wrappers |-> 0]
    /\ today = 1
    /\ rngSeed = "unseeded"
    /\ last = NoCall
    /\ memo = NoCall
    /\ \/ html = NoMarkup
       \/ \E hf \in BOOLEAN, ht \in BOOLEAN :
            \E f \in Children(hf), t \in Contents(ht) :
                html = Markup(hf, f, ht, t)
    /\ parsed = NotParsed
    /\ render = NoRender
    /\ wrapper_source = NoSources
    /\ trmnl = NoUpdater

NextParse == Parse

SpecParse == InitParse /\ [][NextParse]_vars

----------------------------------------------------------------------------
(* plot_word and its callers (draw.py)                                     *)
(*                                                                         *)
(* The rows get_all_words returns are modelled here with the markup of     *)
(* their representation column, which is what plot_word parses.            *)
(* extract_meaning and plot_japanese are taken not to raise.               *)

OneChar == [kind |-> "str", len |-> 1]

\* representation markups of the rows: one that parses, one with a ruby
\* without <rt>, one with two readings for one character, one without the
\* text span
RenderMarkups ==
    {Markup(TRUE, <<"span">>, TRUE, <<OneChar>>),
     Markup(TRUE, <<"ruby_no_rt">>, TRUE, <<OneChar>>),
     Markup(TRUE, <<"span", "span">>, TRUE, <<OneChar>>),
     Markup(TRUE, <<"span">>, FALSE, <<>>)}

\* data: the rows in the order of get_all_words
RenderData ==
    {[i \in 1..Len(m) |-> [word_id |-> i, representation |-> m[i]]] :
        m \in SeqsUpTo(RenderMarkups, MaxEntries)}

ValueErrors == {MalformedRuby, UnexpectedElement, LengthMismatch}
NameError == "NameError: name 'd' is not defined"

\* the module global d: bound by the loop of __main__ only
Undefined == [defined |-> FALSE]
Bound(row) == [defined |-> TRUE, row |-> row]

\* plot_word(word): the path of the SVG, or "" after a ValueError, whose
\* handler prints d["representation"] of the global d; any other exception,
\* and the NameError of the handler when d is not bound, leaves plot_word
plot_word(word, d) ==
    LET repr == extract_representation(word.representation)
    IN  IF repr.kind = "return"
        THEN [kind |-> "return", path |-> "svg", printed |-> <<>>, error |-> ""]
        ELSE IF repr.error \in ValueErrors
        THEN IF d.defined
             THEN [kind |-> "return", path |-> "",
                   printed |-> <<d.row.representation>>, error |-> ""]
             ELSE [kind |-> "raise", path |-> "", printed |-> <<>>,
                   error |-> NameError]
        ELSE [kind |-> "raise", path |-> "", printed |-> <<>>,
              error |-> repr.error]

\* the run after plot_word was called on data[i]
AfterPlot(i, out, d) ==
    [render EXCEPT
        !.d = d,
        !.pos = i,
        !.outcomes = Append(@, [row |-> i, path |-> out.path,
                                printed |-> out.printed]),
        !.error = out.error,
        !.raised_in = IF out.kind = "raise" THEN "plot_word" ELSE ""]

\* __main__: one pass of `for d in data: plot_word(d, 780, 460)`
main_loop ==
    /\ render.caller = "main"
    /\ ~render.done
    /\ IF render.pos < Len(render.data) /\ render.error = ""
       THEN LET i == render.pos + 1
                d == Bound(render.data[i])
            IN  render' = AfterPlot(i, plot_word(render.data[i], d), d)
       ELSE render' = [render EXCEPT !.done = TRUE]
    /\ UNCHANGED <<words, meaning_wrappers, sqlite_sequence, today, rngSeed,
                   last, memo, html, parsed, wrapper_source, trmnl>>

\* generate_word(word_id=...): d is a local of generate_word
generate_word(word_id) ==
    /\ render.caller = "generate_word"
    /\ ~render.done
    /\ word_id < Len(render.data)
    /\ render' = [AfterPlot(word_id + 1,
                            plot_word(render.data[word_id + 1], Undefined),
                            Undefined)
                    EXCEPT !.done = TRUE]
    /\ UNCHANGED <<words, meaning_wrappers, sqlite_sequence, today, rngSeed,
                   last, memo, html, parsed, wrapper_source, trmnl>>

\* generate_word_date(date_str=..., offset=...) on these rows: the sample,
\* then plot_word on the row picked
generate_word_date_plot(date_str, offset) ==
    /\ render.caller = "generate_word_date"
    /\ ~render.done
    /\ LET s == random_sample(word_date_seed(date_str), render.data)
       IN  IF s.error # ""
           THEN render' = [render EXCEPT !.error = s.error,
                                         !.raised_in = "random.sample",
                                         !.done = TRUE]
           ELSE LET row == s.rows[(offset % SampleSize) + 1]
                IN  render' = [AfterPlot(row.word_id,
                                         plot_word(row, Undefined), Undefined)
                                 EXCEPT !.done = TRUE]
    /\ rngSeed' = word_date_seed(date_str)
    /\ UNCHANGED <<words, meaning_wrappers, sqlite_sequence, today,
                   last, memo, html, parsed, wrapper_source, trmnl>>

InitRender ==
    /\ words = {}
    /\ meaning_wrappers = {}
    /\ sqlite_sequence = [words |-> 0, meaning_wrappers |-> 0]
    /\ today = 1
    /\ rngSeed = "unseeded"
    /\ last = NoCall
    /\ memo = NoCall
    /\ html = NoMarkup
    /\ parsed = NotParsed
    /\ wrapper_source = NoSources
    /\ trmnl = NoUpdater
    /\ \E c \in {"main", "generate_word", "generate_word_date"},
          data \in RenderData :
            render = [caller |-> c, data |-> data, d |-> Undefined, pos |-> 0,
                      outcomes |-> <<>>, error |-> "", raised_in |-> "",
                      done |-> FALSE]

NextRender ==
    \/ main_loop
    \/ \E word_id \in 0..(MaxEntries - 1) : generate_word(word_id)
    \/ \E d \in Range(Days), k \in 0..MaxOffset : generate_word_date_plot(d, k)

SpecRender == InitRender /\ [][NextRender]_vars

----------------------------------------------------------------------------
(* store_extracted_results statement by statement, with statements that    *)
(* raise, and the foreign key of meaning_wrappers (jishi scrape/main.py)   *)

Database == [words |-> words, meaning_wrappers |-> meaning_wrappers,
             sqlite_sequence |-> sqlite_sequence]

\* the INSERT statements of a batch, in the order of the two loops
RECURSIVE Statements(_)
Statements(batch) ==
    IF batch = <<>> THEN <<>>
    ELSE <<"words">> \o [k \in 1..batch[1] |-> "meaning_wrappers"]
            \o Statements(Tail(batch))

\* PRAGMA foreign_keys of the connection: sqlite3.connect leaves it at
\* SQLite's default, and no statement of the program sets it
foreign_keys == FALSE

\* INSERT INTO words (representation_html) VALUES (?)
insert_word(db) ==
    LET id == db.sqlite_sequence.words + 1
    IN  [db EXCEPT !.words = @ \cup {[id |-> id]},
                   !.sqlite_sequence.words = id]

\* INSERT INTO meaning_wrappers (word_id, wrapper_html) VALUES (?, ?)
insert_meaning_wrapper(db, word_id) ==
    LET id == db.sqlite_sequence.meaning_wrappers + 1
    IN  [db EXCEPT !.meaning_wrappers = @ \cup {[id |-> id, word_id |-> word_id]},
                   !.sqlite_sequence.meaning_wrappers = id]

\* the statements of the transaction, word_id = c.lastrowid of the last
\* INSERT INTO words
RECURSIVE Execute(_, _, _)
Execute(stmts, db, lastrowid) ==
    IF stmts = <<>> THEN db
    ELSE IF stmts[1] = "words"
    THEN Execute(Tail(stmts), insert_word(db), db.sqlite_sequence.words + 1)
    ELSE Execute(Tail(stmts), insert_meaning_wrapper(db, lastrowid), lastrowid)

\* (mutant) an except branch that does not roll back
rollback_nothing(before, partial) == partial

\* conn.rollback(): the rows and the AUTOINCREMENT counters of BEGIN
rollback(before, partial) == before

SqliteError == "sqlite3.Error"

\* the batches that fit into the room left under MaxRows
StoreBatches ==
    With(MaxRows - Cardinality(meaning_wrappers), LAMBDA room :
      {b \in UNION {[1..n -> 1..room] : n \in 1..MaxBatch} :
          BatchSize(b) <= room})

\* store_extracted_results, where statement fail_at raises (0: none does,
\* Len(Statements(batch)) + 1: conn.commit() does)
store_extracted_results_run(batch, fail_at) ==
    LET before  == Database
        stmts   == Statements(batch)
        done    == IF fail_at = 0 THEN Len(stmts) ELSE fail_at - 1
        partial == Execute(SubSeq(stmts, 1, done), before, 0)
        after   == IF fail_at = 0 THEN partial
                   ELSE rollback(before, partial)
    IN  /\ words' = after.words
        /\ meaning_wrappers' = after.meaning_wrappers
        /\ sqlite_sequence' = after.sqlite_sequence
        /\ last' = [op |-> "store", batch |-> batch, fail_at |-> fail_at,
                    before |-> before,
                    raised |-> IF fail_at = 0 THEN "" ELSE SqliteError,
                    error  |-> IF fail_at = 0 THEN "" ELSE SqliteError]
        /\ memo' = NoCall
        /\ UNCHANGED <<today, rngSeed, html, parsed, render, wrapper_source,
                       trmnl>>

\* the INSERT of a meaning wrapper on its own, with any word_id
insert_gloss(word_id) ==
    /\ Cardinality(meaning_wrappers) < MaxRows
    /\ LET existed == \E w \in words : w.id = word_id
           refused == foreign_keys /\ ~existed
           after   == IF refused THEN Database
                      ELSE insert_meaning_wrapper(Database, word_id)
       IN  /\ meaning_wrappers' = after.meaning_wrappers
           /\ sqlite_sequence' = after.sqlite_sequence
           /\ last' = [op |-> "insert_gloss", word_id |-> word_id,
                       existed |-> existed,
                       error |-> IF refused
                                 THEN "IntegrityError: FOREIGN KEY constraint failed"
                                 ELSE ""]
    /\ memo' = NoCall
    /\ UNCHANGED <<words, today, rngSeed, html, parsed, render,
                   wrapper_source, trmnl>>

\* DELETE FROM words WHERE id = ?, under FOREIGN KEY(word_id) REFERENCES
\* words(id) ON DELETE CASCADE
delete_word(id) ==
    /\ \E w \in words : w.id = id
    /\ words' = {w \in words : w.id # id}
    /\ meaning_wrappers' = IF foreign_keys
                           THEN {g \in meaning_wrappers : g.word_id # id}
                           ELSE meaning_wrappers
    /\ last' = [op |-> "delete_word", word_id |-> id, error |-> ""]
    /\ memo' = NoCall
    /\ UNCHANGED <<sqlite_sequence, today, rngSeed, html, parsed, render,
                   wrapper_source, trmnl>>

NextStore ==
    \/ \E batch \in StoreBatches :
         \E fail_at \in 0..(Len(Statements(batch)) + 1) :
            store_extracted_results_run(batch, fail_at)
    \/ \E word_id \in 1..(sqlite_sequence.words + 1) : insert_gloss(word_id)
    \/ \E id \in 1..sqlite_sequence.words : delete_word(id)

SpecStore == Init /\ [][NextStore]_vars

----------------------------------------------------------------------------
(* The scrape-and-store pass (jishi scrape/main.py, __main__)              *)
(*                                                                         *)
(* A page is the sequence of its div.concept_light entries; an entry is    *)
(* modelled by whether it has the representation div and by its            *)
(* div.meaning-wrapper elements, each by whether it holds a div.sentence.  *)

PageWrappers == [sentence : BOOLEAN]
PageEntries ==
    [representation : BOOLEAN, wrappers : SeqsUpTo(PageWrappers, MaxGlosses)]
Pages == SeqsUpTo(PageEntries, MaxPageEntries)

RECURSIVE Flatten(_)
Flatten(ss) == IF ss = <<>> THEN <<>> ELSE ss[1] \o Flatten(Tail(ss))

\* (mutant) any div counts as a sentence
has_any_div(wrapper) == TRUE

\* wrapper.find('div', class_='sentence')
has_sentence(wrapper) == wrapper.sentence

\* the wrappers of an entry that pass the sentence check, in page order
RECURSIVE sentence_wrappers(_)
sentence_wrappers(wrappers) ==
    IF wrappers = <<>> THEN <<>>
    ELSE (IF has_sentence(wrappers[1]) THEN <<wrappers[1]>> ELSE <<>>)
         \o sentence_wrappers(Tail(wrappers))

\* the entry of the result for one div.concept_light: none without the
\* representation div or without a wrapper that holds a sentence
extract_entry(entry) ==
    IF ~entry.representation THEN <<>>
    ELSE LET meaning_wrappers_kept == sentence_wrappers(entry.wrappers)
         IN  IF meaning_wrappers_kept = <<>> THEN <<>>
             ELSE <<[representation |-> TRUE,
                     meaning_wrappers |-> meaning_wrappers_kept]>>

extract_words_with_sentences(page) ==
    Flatten([i \in 1..Len(page) |-> extract_entry(page[i])])

\* the wrappers of a list of page results
WrappersOf(results) ==
    Flatten([i \in 1..Len(Flatten(results)) |->
                Flatten(results)[i].meaning_wrappers])

Pending == IF last.op = "scrape" THEN last.results ELSE <<>>

\* results.append(extract_words_with_sentences(soup)) for one page
extract_page(page) ==
    /\ last.op \in {"none", "scrape", "stored"}
    /\ LET results == Append(Pending, extract_words_with_sentences(page))
       IN  /\ Len(results) <= MaxPages
           /\ Cardinality(meaning_wrappers) + Len(WrappersOf(results))
                 <= MaxRows
           /\ last' = [op |-> "scrape", results |-> results,
                       dropped |-> \/ (last.op = "scrape" /\ last.dropped)
                                   \/ \E i \in 1..Len(page) :
                                        \E k \in 1..Len(page[i].wrappers) :
                                           ~page[i].wrappers[k].sentence]
    /\ UNCHANGED <<words, meaning_wrappers, sqlite_sequence, today, rngSeed,
                   memo, html, parsed, render, wrapper_source, trmnl>>

\* store_extracted_results(results) at the end of the pass
store_results ==
    /\ last.op = "scrape"
    /\ LET all_entries == Flatten(last.results)
           batch == [i \in 1..Len(all_entries) |->
                        Len(all_entries[i].meaning_wrappers)]
           r == InsertAll(batch, words, meaning_wrappers, sqlite_sequence)
       IN  /\ words' = r.words
           /\ meaning_wrappers' = r.meaning_wrappers
           /\ sqlite_sequence' = r.sqlite_sequence
           /\ wrapper_source' = wrapper_source \o WrappersOf(last.results)
           /\ last' = [op |-> "stored", dropped |-> last.dropped,
                       stored |-> Len(WrappersOf(last.results))]
    /\ memo' = NoCall
    /\ UNCHANGED <<today, rngSeed, html, parsed, render, trmnl>>

NextScrape ==
    \/ \E page \in Pages : extract_page(page)
    \/ store_results

SpecScrape == Init /\ [][NextScrape]_vars

----------------------------------------------------------------------------
(* The updater task and send_to_trmnl (src/main.py)                        *)
(*                                                                         *)
(* data/trmnl.json is "missing", "invalid" (not JSON, e.g. cut short by a  *)
(* write that failed), or the date string under "last_datatime".  One      *)
(* iteration of the updater loop is one action; what can go wrong in it    *)
(* is an input: nothing, the read of the file, the payload query, the      *)
(* POST, the open for writing, or the dump into the opened file.           *)

Missing == "missing"
Invalid == "invalid"
Faults == {"none", "read", "payload", "post", "write_open", "write_dump"}
StatusCodes == {200, 500}

\* trnml_stat after the try block: the recorded date, "" when the file is
\* missing, is not JSON or could not be read
trnml_stat(history, fault) ==
    IF fault = "read" \/ history \in {Missing, Invalid} THEN "" ELSE history

\* (mutant) the date recorded whatever the answer was
recorded_always(status_code) == TRUE

\* if response.status_code == 200
recorded(status_code) == status_code = 200

\* the history file after the branch on the status code
write_history(history, today_str, status_code, fault) ==
    IF ~recorded(status_code) THEN [history |-> history, raised |-> FALSE]
    ELSE IF fault = "write_open" THEN [history |-> history, raised |-> TRUE]
    ELSE IF fault = "write_dump" THEN [history |-> Invalid, raised |-> TRUE]
    ELSE [history |-> today_str, raised |-> FALSE]

\* one call: what it did, the history file after it, whether a POST was
\* made and answered, and whether an exception left the function
send_to_trmnl(api_key, history, today_str, fault, status_code) ==
    IF ~api_key
    THEN [outcome |-> "no_key", history |-> history, posted |-> FALSE,
          status_code |-> 0, raised |-> FALSE]
    ELSE IF trnml_stat(history, fault) = today_str
    THEN [outcome |-> "pass", history |-> history, posted |-> FALSE,
          status_code |-> 0, raised |-> FALSE]
    ELSE IF fault \in {"payload", "post"}
    THEN [outcome |-> "raised", history |-> history, posted |-> FALSE,
          status_code |-> 0, raised |-> TRUE]
    ELSE LET w == write_history(history, today_str, status_code, fault)
         IN  [outcome |-> IF status_code = 200 THEN "pushed" ELSE "rejected",
              history |-> w.history, posted |-> TRUE,
              status_code |-> status_code, raised |-> w.raised]

\* (mutant) the loop body without the try
task_after_uncaught(raised) == IF raised THEN "dead" ELSE "running"

\* try: send_to_trmnl() except Exception: log
task_after(raised) == "running"

\* task = asyncio.create_task(updater())
lifespan(api_key) ==
    /\ trmnl = NoUpdater
    /\ trmnl' = [task |-> "running", api_key |-> api_key,
                 history |-> Missing, ok_pushes |-> [d \in Range(Days) |-> 0],
                 io_failed |-> {}, prev |-> [outcome |-> "none", date |-> ""],
                 outcome |-> "none", date |-> "", before |-> Missing,
                 fault |-> "none", posted |-> FALSE, raised |-> FALSE]
    /\ UNCHANGED <<words, meaning_wrappers, sqlite_sequence, today, rngSeed,
                   last, memo, html, parsed, render, wrapper_source>>

\* one iteration of while True in updater
updater(fault, status_code) ==
    /\ trmnl # NoUpdater
    /\ trmnl.task = "running"
    /\ trmnl.ok_pushes[Days[today]] < MaxPushes
    /\ LET today_str == Days[today]
           r == send_to_trmnl(trmnl.api_key, trmnl.history, today_str,
                              fault, status_code)
           io == \/ trmnl.api_key /\ fault = "read"
                 \/ r.outcome = "pushed" /\ r.raised
       IN  trmnl' = [task |-> task_after(r.raised),
                     api_key |-> trmnl.api_key,
                     history |-> r.history,
                     ok_pushes |->
                        IF r.posted /\ r.status_code = 200
                        THEN [trmnl.ok_pushes EXCEPT ![today_str] = @ + 1]
                        ELSE trmnl.ok_pushes,
                     io_failed |-> IF io THEN trmnl.io_failed \cup {today_str}
                                   ELSE trmnl.io_failed,
                     prev |-> [outcome |-> trmnl.outcome,
                               date |-> trmnl.date],
                     outcome |-> r.outcome, date |-> today_str,
                     before |-> trmnl.history, fault |-> fault,
                     posted |-> r.posted, raised |-> r.raised]
    /\ UNCHANGED <<words, meaning_wrappers, sqlite_sequence, today, rngSeed,
                   last, memo, html, parsed, render, wrapper_source>>

NextPush ==
    \/ \E api_key \in BOOLEAN : lifespan(api_key)
    \/ \E fault \in Faults, status_code \in StatusCodes :
          updater(fault, status_code)
    \/ Tick

SpecPush == Init /\ [][NextPush]_vars

----------------------------------------------------------------------------
(* Claims about the selections *)

Qualifying == {mw.word_id : mw \in meaning_wrappers}

Entries(call) == {call.result[i] : i \in 1..Len(call.result)}

SelectedIds(call) == {e.word_id : e \in Entries(call)}

\* the word ids the daily selection picks for date d in the current store
DailyWordIds(d) == Range(daily_words(date_seed(d)))

\* C1: generate_word_date(date_str = d, offset = k) picks the entry at index
\* k of the list get_daily_meaning_wrappers(d) returns for the same store.
OffsetPicksDailyEntry ==
    (last.op = "offset" /\ last.arg \in DateStrs) =>
        LET daily == get_daily_meaning_wrappers(last.arg)
            k     == last.offset + 1
        IN  k <= Len(daily) =>
               /\ last.result.error = ""
               /\ last.result.row.word_id = daily[k].word_id
               /\ last.result.row.meaning_wrapper = daily[k].meaning_wrapper
               /\ last.result.row.representation = daily[k].representation

\* C2 (as stated): two calls of get_daily_meaning_wrappers with the same
\* date_str argument and an unchanged store return the same list, whatever
\* happened in between.
DailyDeterministic ==
    (last.op = "daily" /\ memo.op = "daily" /\ last.arg = memo.arg) =>
        last.result = memo.result

\* C2 (amended): two calls of get_daily_meaning_wrappers with the same
\* non-empty date_str argument and an unchanged store return the same list,
\* whatever happened in between (clock ticks, offset-mode calls, other daily
\* calls).
DailyDeterministicForGivenDate ==
    (last.op = "daily" /\ memo.op = "daily" /\ last.arg = memo.arg
        /\ last.arg # "") =>
        last.result = memo.result

\* a second call for the same given date, after a clock tick and an
\* offset-mode call, with four words selected
DailyCalledTwice ==
    /\ last.op = "daily" /\ memo.op = "daily" /\ last.repeat
    /\ last.arg = memo.arg /\ last.arg # ""
    /\ today > 1
    /\ rngSeed # "unseeded"
    /\ Len(last.result) = DailyLimit

\* a call of get_daily_meaning_wrappers writes nothing to the store
DailyLeavesStore ==
    [][(\E d \in DateArgs : last'.op = "daily" /\ last'.arg = d /\ GetDaily(d))
          => UNCHANGED <<words, meaning_wrappers, sqlite_sequence>>]_vars

\* calls for the same date, given or taken from the clock, with no store
\* write in between return the same list
SameDateSameResult ==
    (last.op = "daily" /\ memo.op = "daily"
        /\ last.date_str = memo.date_str) =>
        last.result = memo.result

\* C15: a call of get_daily_meaning_wrappers leaves words, meaning_wrappers
\* and the AUTOINCREMENT counters as they were, and repeated calls for the
\* same date, by the updater (date from the clock) or with the date given,
\* in any order with other calls, return what the first of them returned.
DailyReadOnlyAndRepeatable == DailyLeavesStore /\ []SameDateSameResult

\* the same date asked for once by name and once through the clock, the
\* second call after a clock tick, with wrappers selected
SameDateAskedTwoWays ==
    /\ last.op = "daily" /\ memo.op = "daily" /\ last.repeat
    /\ last.date_str = memo.date_str
    /\ last.arg # memo.arg
    /\ last.result # <<>>
    /\ Cardinality(meaning_wrappers) > Len(last.result)

DailySize ==
    last.op = "daily" =>
        /\ Len(last.result) = Min(DailyLimit, Cardinality(Qualifying))
        /\ \A i, j \in 1..Len(last.result) :
              last.result[i].word_id = last.result[j].word_id => i = j
        /\ SelectedIds(last) \subseteq Qualifying

\* a daily call on a store of more than 4 words, one of the selected words
\* having several wrappers
DailyFourOfMore ==
    /\ last.op = "daily"
    /\ Cardinality(Qualifying) > DailyLimit
    /\ Len(last.result) = DailyLimit
    /\ \E e \in Entries(last) : \E mw \in meaning_wrappers :
          mw.word_id = e.word_id /\ mw.id # e.meaning_wrapper

\* C5: each selected word has exactly one entry, the entry's wrapper is a
\* wrapper of that word, and no wrapper of that word has a key
\* SUBSTR(id * seed, 1, 15) that sorts before the entry's wrapper's key
\* (keys are TEXT, compared as text), seed being the seed of the call's date.
SelectedWrapperHasMinKey ==
    last.op = "daily" =>
        LET seed == date_seed(last.date_str)
        IN  \A e \in Entries(last) :
              /\ Cardinality({x \in Entries(last) : x.word_id = e.word_id}) = 1
              /\ \E mw \in meaning_wrappers :
                    mw.id = e.meaning_wrapper /\ mw.word_id = e.word_id
              /\ \A mw \in meaning_wrappers :
                    mw.word_id = e.word_id =>
                       ~TextLess(Substr15(mw.id, seed),
                                 Substr15(e.meaning_wrapper, seed))

\* a daily call in which the wrapper taken for a word is not that word's
\* first wrapper
LaterWrapperSelected ==
    /\ last.op = "daily"
    /\ \E e \in Entries(last) : \E mw \in meaning_wrappers :
          mw.word_id = e.word_id /\ mw.id < e.meaning_wrapper

\* The store only grows and ids ascend, so the table meaning_wrappers as it
\* was when the store held the words 1..m is the rows with word_id <= m.
WrappersBefore(m) == {mw \in meaning_wrappers : mw.word_id <= m}

\* C6 (as stated): once four words are selected for a date, inserting
\* further words and wrappers does not change which words are selected: the
\* selection from the current store is the selection from the store as it
\* was with m >= 4 words.
GrowthKeepsSelection ==
    \A d \in DateStrs : \A m \in DailyLimit..Cardinality(words) :
        Range(daily_words_from(WrappersBefore(m), date_seed(d)))
            = DailyWordIds(d)

\* C6 (amended): inserting further words and wrappers changes the words
\* selected for a date only by letting inserted words displace selected
\* ones: a word that was in the store before the inserts and is selected
\* after them was selected before them (looked at in the state each
\* store_extracted_results call leaves).
GrowthOnlyDisplaces ==
    last = NoCall =>
    \A d \in DateStrs : \A m \in 0..Cardinality(words) :
        \A w \in DailyWordIds(d) :
            w <= m =>
                w \in Range(daily_words_from(WrappersBefore(m), date_seed(d)))

\* a store in which a word inserted after the first four is selected for
\* some date, in place of one of the first four
LaterWordSelected ==
    \E d \in DateStrs :
        /\ \E w \in DailyWordIds(d) : w > DailyLimit
        /\ \E w \in 1..DailyLimit : w \notin DailyWordIds(d)

----------------------------------------------------------------------------
(* Claims about extract_representation *)

\* extract_representation has been called on the markup, which has the
\* container div
Parsed == parsed # NotParsed /\ html.container

\* every child of the furigana span yields a reading
ChildrenParse ==
    \A i \in 1..Len(html.furigana) :
        html.furigana[i] \in {"span", "ruby", "ruby_no_rb"}

\* the number of readings of the markup
ReadingCount == Len(html.furigana)

\* the content nodes of the text span that are display units: the strings
\* that are not blank, and the spans
UnitNodes ==
    {j \in 1..Len(html.text) :
        \/ html.text[j].kind = "span"
        \/ html.text[j].kind = "str" /\ html.text[j].len > 0}

\* the display units after expansion, as positions: <<j, 0>> for the span at
\* node j, <<j, c>> for character c of the plain unit at node j
ExpandedUnits ==
    {<<j, 0>> : j \in {i \in UnitNodes : html.text[i].kind = "span"}}
        \cup UNION {{<<j, c>> : c \in 1..html.text[j].len} :
                        j \in {i \in UnitNodes : html.text[i].kind = "str"}}

UnitCount == Cardinality(UnitNodes)
CharSum == Cardinality(ExpandedUnits)

\* the k-th display unit, and its text
UnitNode(k) ==
    CHOOSE j \in UnitNodes : Cardinality({i \in UnitNodes : i < j}) = k - 1
UnitText(k) == [c \in 1..html.text[UnitNode(k)].len |-> <<UnitNode(k), c>>]

\* the k-th display unit after expansion, and its text
PosBefore(a, b) == a[1] < b[1] \/ (a[1] = b[1] /\ a[2] < b[2])
ExpandedUnit(k) ==
    CHOOSE e \in ExpandedUnits :
        Cardinality({x \in ExpandedUnits : PosBefore(x, e)}) = k - 1
ExpandedText(k) ==
    IF ExpandedUnit(k)[2] = 0
    THEN [c \in 1..html.text[ExpandedUnit(k)[1]].len |-> <<ExpandedUnit(k)[1], c>>]
    ELSE <<ExpandedUnit(k)>>

\* C7: when the number of readings equals neither the number of display
\* units nor the sum of the units' character counts (a span counting as
\* one), extract_representation raises the length-mismatch ValueError and
\* returns no blocks.
MismatchRaises ==
    (Parsed /\ ChildrenParse
        /\ ReadingCount # UnitCount /\ ReadingCount # CharSum)
    => parsed = Raise(LengthMismatch)

\* C8: when the number of readings equals the number of display units,
\* extract_representation returns one block per display unit, the i-th block
\* holding the i-th unit's whole text and the i-th reading, whether or not
\* the sum of the character counts equals the number of readings too.
EqualCountsZipPairwise ==
    (Parsed /\ ChildrenParse /\ ReadingCount = UnitCount)
    => /\ parsed.kind = "return"
       /\ Len(parsed.blocks) = UnitCount
       /\ \A i \in 1..UnitCount :
            /\ parsed.blocks[i].kanji = UnitText(i)
            /\ parsed.blocks[i].furigana = <<i>>

\* C9: when the number of readings differs from the number of display units
\* and equals the sum of the character counts, extract_representation
\* splits every plain unit into its characters, keeps every span whole, and
\* pairs the resulting units with the readings in order.
SumEqualExpands ==
    (Parsed /\ ChildrenParse
        /\ ReadingCount # UnitCount /\ ReadingCount = CharSum)
    => /\ parsed.kind = "return"
       /\ Len(parsed.blocks) = ReadingCount
       /\ \A i \in 1..ReadingCount :
            /\ parsed.blocks[i].kanji = ExpandedText(i)
            /\ parsed.blocks[i].furigana = <<i>>

\* a parse in which a plain unit of two characters was split and a span of
\* two characters was kept whole
PlainSplitSpanKept ==
    /\ Parsed /\ ChildrenParse
    /\ ReadingCount # UnitCount /\ ReadingCount = CharSum
    /\ parsed.kind = "return"
    /\ \E j \in UnitNodes : html.text[j].kind = "str" /\ html.text[j].len = 2
    /\ \E j \in UnitNodes : html.text[j].kind = "span" /\ html.text[j].len = 2

\* C10 (as stated): a returned parse has one reading per child of the
\* furigana span, and whenever some ruby child has no <rt> the parse raises
\* the malformed-ruby ValueError, whatever the other children and the text
\* span contain.
MissingRtAlwaysMalformed ==
    Parsed =>
        /\ parsed.kind = "return" => Len(parsed.blocks) = ReadingCount
        /\ (\E i \in 1..Len(html.furigana) : html.furigana[i] = "ruby_no_rt")
            => parsed = Raise(MalformedRuby)

\* the first child of the furigana span that is not a span or a ruby with
\* an <rt>, 0 if there is none
FirstBadChild ==
    IF ChildrenParse THEN 0
    ELSE CHOOSE i \in 1..Len(html.furigana) :
            /\ html.furigana[i] \in {"ruby_no_rt", "other"}
            /\ \A j \in 1..(i - 1) : html.furigana[j] \notin {"ruby_no_rt", "other"}

\* C10 (amended): a returned parse has one reading per child of the
\* furigana span; when the first child that is neither a span nor a ruby
\* with an <rt> is a ruby without <rt>, the parse raises the malformed-ruby
\* ValueError whatever the later children and the text span contain; when
\* it is some other node, the parse raises the unexpected-element
\* ValueError instead, even if a later ruby has no <rt>.
FirstBadChildDecides ==
    Parsed =>
        /\ parsed.kind = "return" => Len(parsed.blocks) = ReadingCount
        /\ FirstBadChild # 0 =>
            parsed = Raise(IF html.furigana[FirstBadChild] = "ruby_no_rt"
                           THEN MalformedRuby ELSE UnexpectedElement)

\* a parse that raised the malformed-ruby ValueError for a ruby that is not
\* the first child, with an unexpected node after it and no text span
MalformedRubyRaised ==
    /\ Parsed
    /\ parsed = Raise(MalformedRuby)
    /\ FirstBadChild > 1
    /\ \E i \in (FirstBadChild + 1)..Len(html.furigana) : html.furigana[i] = "other"
    /\ ~html.has_text

\* the texts of the display units of the text span from content node j on,
\* one after the other
RECURSIVE RegionText(_)
RegionText(j) ==
    IF j > Len(html.text) THEN <<>>
    ELSE (IF j \in UnitNodes
          THEN [c \in 1..html.text[j].len |-> <<j, c>>]
          ELSE <<>>) \o RegionText(j + 1)

\* the kanji of the returned blocks, one after the other
BlocksText ==
    Flatten([i \in 1..Len(parsed.blocks) |-> parsed.blocks[i].kanji])

\* C17: when extract_representation returns for a markup with the container
\* div, there is one block per reading, block i holds reading i, and the
\* kanji of the blocks in order spell the texts of the display units in
\* order, through either branch of the reconciliation.
BlocksCoverReadingsAndText ==
    (Parsed /\ parsed.kind = "return") =>
        /\ Len(parsed.blocks) = ReadingCount
        /\ \A i \in 1..Len(parsed.blocks) : parsed.blocks[i].furigana = <<i>>
        /\ BlocksText = RegionText(1)

\* a return through the expansion branch with three readings: a plain unit
\* of two characters split in two, and a span kept whole
ThreeReadingsOverSplitUnit ==
    /\ Parsed /\ parsed.kind = "return"
    /\ ReadingCount = 3 /\ UnitCount = 2
    /\ \E i \in 1..ReadingCount : html.furigana[i] = "ruby"
    /\ \E j \in UnitNodes : html.text[j].kind = "str" /\ html.text[j].len = 2
    /\ \E j \in UnitNodes : html.text[j].kind = "span"
    /\ Len(BlocksText) = 3

----------------------------------------------------------------------------
(* Claims about the callers of plot_word *)

\* the rows of the run whose representation does not parse
ParseFails(row) == extract_representation(row.representation).kind = "raise"

\* the outcome recorded for row i of data, if plot_word was called on it
OutcomesOf(i) ==
    {render.outcomes[k] : k \in {j \in 1..Len(render.outcomes) :
                                    render.outcomes[j].row = i}}

\* C11: a parse failure of one row never leaves plot_word: from each caller
\* (the loop of __main__, generate_word, generate_word_date) the row's
\* markup is printed, "" is returned for the row, and the loop of __main__
\* goes on to call plot_word on every remaining row.
ParseFailureSkipsRow ==
    render.caller # "none" =>
        /\ render.raised_in # "plot_word"
        /\ \A i \in 1..Len(render.data) : \A o \in OutcomesOf(i) :
              ParseFails(render.data[i]) =>
                  /\ o.path = ""
                  /\ o.printed = <<render.data[i].representation>>
        /\ (render.caller = "main" /\ render.done) =>
              \A i \in 1..Len(render.data) : OutcomesOf(i) # {}

----------------------------------------------------------------------------
(* Claims about the store *)

\* the word rows and wrapper rows a call added
NewWords == {w \in words : w \notin last.before.words}
NewWrappers == {g \in meaning_wrappers : g \notin last.before.meaning_wrappers}

\* the new word rows in the order of their ids
NewWord(i) ==
    CHOOSE w \in NewWords : Cardinality({v \in NewWords : v.id < w.id}) = i - 1

\* C12: after store_extracted_results returned, the tables hold the rows
\* they held before and, for every entry of the batch, one new word row with
\* the entry's wrapper rows; after it raised, the tables and the
\* AUTOINCREMENT counters are as before the call, and the exception is the
\* one the failing statement raised.
AllOrNothing ==
    last.op = "store" =>
        IF last.fail_at = 0
        THEN /\ last.error = ""
             /\ last.before.words \subseteq words
             /\ last.before.meaning_wrappers \subseteq meaning_wrappers
             /\ Cardinality(NewWords) = Len(last.batch)
             /\ Cardinality(NewWrappers) = BatchSize(last.batch)
             /\ \A i \in 1..Len(last.batch) :
                  Cardinality({g \in NewWrappers : g.word_id = NewWord(i).id})
                      = last.batch[i]
        ELSE /\ Database = last.before
             /\ last.error = last.raised
             /\ last.error # ""

\* a call on a store with rows that raised at the second entry's wrapper,
\* after rows of the batch had been inserted
RolledBackAfterInserts ==
    /\ last.op = "store"
    /\ last.fail_at > 3
    /\ last.fail_at <= Len(Statements(last.batch))
    /\ last.before.words # {}
    /\ Database = last.before

\* C13: every wrapper row's word_id is the id of a word row; an INSERT of a
\* wrapper row with a word_id that is no word's id fails with the foreign
\* key violation, and a DELETE of a word row deletes its wrapper rows.
ReferentialIntegrity ==
    /\ \A g \in meaning_wrappers : \E w \in words : w.id = g.word_id
    /\ (last.op = "insert_gloss" /\ ~last.existed) => last.error # ""

----------------------------------------------------------------------------
(* Claims about the scrape-and-store pass *)

\* C14: after any number of passes, every meaning_wrappers row comes from a
\* page wrapper that holds an example sentence.
PersistedGlossHasSentence ==
    /\ Len(wrapper_source) = Cardinality(meaning_wrappers)
    /\ \A g \in meaning_wrappers : wrapper_source[g.id].sentence

\* a pass that stored wrappers and met a wrapper without a sentence
PassDroppedWrapper ==
    /\ last.op = "stored"
    /\ last.dropped
    /\ last.stored > 0
    /\ Cardinality(words) > 1

----------------------------------------------------------------------------
(* Claims about the updater *)

Ticked == trmnl # NoUpdater /\ trmnl.outcome # "none"

\* the last iteration made a push that failed: answered with another status
\* than 200, or ended by an exception before an answer
FailedPush(outcome) == outcome \in {"rejected", "raised"}

\* the date is written only after a POST answered with 200
RecordedOnlyAfter200 ==
    (Ticked /\ trmnl.history # trmnl.before) =>
        (trmnl.outcome = "pushed" /\ trmnl.posted)

\* a failed push leaves the history file as it was
FailedPushKeepsHistory ==
    (Ticked /\ FailedPush(trmnl.outcome)) => trmnl.history = trmnl.before

\* an exception in an iteration leaves the task running
LoopSurvives == trmnl # NoUpdater => trmnl.task = "running"

\* C16 (as stated): the date is recorded only after a 200; nothing is pushed
\* when the recorded date is today's; at most one push per date is answered
\* with 200; a failed push leaves the history unchanged and the next
\* iteration on that date pushes again; the loop survives every exception.
OnePushPerDate ==
    /\ RecordedOnlyAfter200
    /\ (Ticked /\ trmnl.before = trmnl.date) => ~trmnl.posted
    /\ trmnl # NoUpdater => \A d \in Range(Days) : trmnl.ok_pushes[d] <= 1
    /\ FailedPushKeepsHistory
    /\ (Ticked /\ FailedPush(trmnl.prev.outcome)
           /\ trmnl.prev.date = trmnl.date) => trmnl.outcome # "pass"
    /\ LoopSurvives

\* C16 (amended): as stated for the dates on which every read and write of
\* the history file worked.  On a date on which a read of the file failed,
\* or the write after a 200 failed, a push can be made although today's date
\* is recorded, and more than one push can be answered with 200.
OnePushPerDateWhileHistoryWorks ==
    /\ RecordedOnlyAfter200
    /\ (Ticked /\ trmnl.before = trmnl.date /\ trmnl.fault # "read")
           => ~trmnl.posted
    /\ trmnl # NoUpdater =>
          \A d \in Range(Days) \ trmnl.io_failed : trmnl.ok_pushes[d] <= 1
    /\ FailedPushKeepsHistory
    /\ (Ticked /\ FailedPush(trmnl.prev.outcome)
           /\ trmnl.prev.date = trmnl.date
           /\ trmnl.date \notin trmnl.io_failed) => trmnl.outcome # "pass"
    /\ LoopSurvives

\* on the second day a push that raised was retried, answered with 200 and
\* recorded, after the first day's single recorded push
RetriedPushRecorded ==
    /\ Ticked
    /\ today = 2
    /\ trmnl.prev.outcome = "raised" /\ trmnl.prev.date = trmnl.date
    /\ trmnl.outcome = "pushed"
    /\ trmnl.history = Days[2]
    /\ trmnl.io_failed = {}
    /\ trmnl.ok_pushes = [d \in Range(Days) |-> 1]

====
